---- MODULE Spec2Model ----
(***************************************************************************)
(* A model of the violin-intonation pitch tracker:                         *)
(*   autogain.js  (src/unnamed/part_003)  AutoGainController               *)
(*   pitch.js     (src/unnamed/part_000)  PitchTracker                     *)
(*   main.js      (src/unnamed/part_001)  start/stop button, poll loop     *)
(*   note.js      (src/unnamed/part_002)  frequencyToNoteData              *)
(*   yin.js       (src/yin.js)            YinPitchDetector                 *)
(*                                                                         *)
(* Numbers are fixed point: amplitudes (samples) in 1/1000, rms values in  *)
(* 1e-6, gains in 1/1000, probabilities in 1/1000, frequencies in Hz,      *)
(* times in ms.  A float that may be NaN or infinite is a record           *)
(* [k |-> "fin" | "nan" | "inf" | "ninf", v |-> n]; a nullable field is    *)
(* <<>> (null) or <<v>>.                                                   *)
(***************************************************************************)
EXTENDS Integers, Sequences, FiniteSets, TLC

VARIABLES
  clock,             \* performance.now() and audioContext.currentTime, in ms
  hasMediaDevices,   \* navigator.mediaDevices?.getUserMedia is defined
  bufferSize,        \* the bufferSize option the PitchTracker was constructed with
  \* ---- a YinPitchDetector and its last getPitch
  detector,          \* its options and its two scratch arrays
  yinInput,          \* the buffer of the next getPitch
  yinCall,           \* <<>>, or the last getPitch: its buffer, tau, result
  \* ---- frequencyToNoteData
  noteInput,         \* the frequency of the next call
  noteCall,          \* <<>>, or the last call: its frequency and what it returned
  \* ---- main.js module state
  pollTimer,         \* <<>> (null) or <<id>>, the id setInterval returned
  timers,            \* the ids of the intervals set and not cleared
  isRunning,
  isInitializing,
  missCounter,
  lastDetectionTime,
  lastFrequency,
  statusMessage,     \* statusMessage.textContent
  readouts,          \* the frequency shown by the readouts, <<>> when reset
  buttonDisabled,    \* startButton.disabled
  \* ---- PitchTracker fields
  initialized,
  stream,
  audioContext,      \* <<>> or <<state>>
  source,
  analyser,
  autoGain,          \* <<>> or <<AutoGainController state>>
  buffer,            \* buffer is non-null (the frame read into it is the poll's input)
  yin,
  calls,             \* position of each PitchTracker.start() call in flight
  \* ---- the tracker's last call, when it was getPitch (else null, empty)
  agcCall,           \* the AutoGainController.update in it: its rms, its time, what it returned
  guardSeen,         \* the fields its guard read
  estimation,        \* what it returned
  callLog,           \* the calls it made, in order
  stopCalled,        \* stop() has been called, and start() not since
  pollOutcome,       \* the path the last poll callback of this session took
  pollTime,          \* its timestamp
  pollSaw,           \* the frequency it was given; missCounter, lastFrequency,
                     \* lastDetectionTime as it found them
  stoppedWithState,  \* the last stopListening found an accepted frequency and a seeded gain
  missRun            \* consecutive polls of this session without a frequency, up to the last

appVars == <<pollTimer, timers, isRunning, isInitializing, missCounter,
             lastDetectionTime, lastFrequency, statusMessage, readouts,
             buttonDisabled, pollOutcome, pollTime, pollSaw, missRun,
             stoppedWithState>>
trackerVars == <<initialized, stream, audioContext, source, analyser, autoGain,
                 buffer, yin, calls, agcCall, guardSeen, estimation, callLog,
                 stopCalled>>
\* what the page and its tracker leave alone
envVars == <<hasMediaDevices, bufferSize, detector, yinInput, yinCall, noteInput, noteCall>>
vars == <<clock, envVars, appVars, trackerVars>>

----------------------------------------------------------------------------
(* Bounds of the model *)

MaxClock == 400
MaxMisses == 6
MaxCalls == 2

(* Values *)

Null == <<>>
Some(v) == <<v>>
Val(x) == x[1]

Fin(n) == [k |-> "fin", v |-> n]
NaN == [k |-> "nan", v |-> 0]
PosInf == [k |-> "inf", v |-> 0]
NegInf == [k |-> "ninf", v |-> 0]

IsFinite(x) == x.k = "fin"

Min2(a, b) == IF a < b THEN a ELSE b
Max2(a, b) == IF a > b THEN a ELSE b
Abs(a) == IF a < 0 THEN -a ELSE a

----------------------------------------------------------------------------
(* autogain.js: AutoGainController, with the options PitchTracker passes *)

TargetRms == 200000
SmoothingTime == 600
MinGain == 500
MaxGain == 200000
Epsilon == 1
GainSlew == 100
UPDATE_INTERVAL_MS == 20

\* Math.exp(-dt / smoothingTime) in 1/1000, dt a multiple of 20 ms:
\* exp(-20/600) = 0.967, raised to the power dt/20.
RECURSIVE ExpNeg(_)
ExpNeg(dt) ==
  IF dt <= 0 THEN 1000
  ELSE (ExpNeg(dt - UPDATE_INTERVAL_MS) * (1000 - (20000 \div SmoothingTime))) \div 1000

\* Math.exp(-dt / gainSlew) in 1/1000, dt a multiple of 20 ms: exp(-20/100) = 0.819,
\* raised to the power dt/20.
SlewStep == 819
RECURSIVE ExpNegSlew(_)
ExpNegSlew(dt) ==
  IF dt <= 0 THEN 1000
  ELSE (ExpNegSlew(dt - UPDATE_INTERVAL_MS) * SlewStep) \div 1000

\* The controller, and its gain node: node.gain.value as of nodeTime, and the target
\* it has been approaching since (nodeTime null: no setTargetAtTime yet).
AgcNew == [smoothedRms |-> Null, lastUpdateTime |-> Null, currentGain |-> 1000,
           nodeValue |-> 1000, nodeTarget |-> 1000, nodeTime |-> Null]

\* the gain in effect on the signal path at time t: after setTargetAtTime(target,
\* t0, gainSlew) it is target + (v0 - target) * exp(-(t - t0) / gainSlew)
NodeGainAt(g, t) ==
  IF g.nodeTime = Null THEN g.nodeValue
  ELSE g.nodeTarget
       + ((g.nodeValue - g.nodeTarget) * ExpNegSlew(t - Val(g.nodeTime))) \div 1000

\* a clamp without the upper limit
ClampNoMax(value) == Max2(MinGain, value)
\* Math.min(this.maxGain, Math.max(this.minGain, value))
Clamp(value) == Min2(MaxGain, Max2(MinGain, value))

\* one that keeps the previous smoothedRms when no time has passed
AgcSmoothHoldingAtOnce(g, rms, now) ==
  IF g.smoothedRms = Null THEN rms
  ELSE LET dt == IF g.lastUpdateTime = Null THEN 0
                 ELSE Max2(0, now - Val(g.lastUpdateTime))
           alpha == 1000 - ExpNeg(dt)
       IN ((1000 - alpha) * Val(g.smoothedRms) + alpha * rms) \div 1000
\* the smoothedRms a finite rms leaves behind
AgcSmooth(g, rms, now) ==
  IF g.smoothedRms = Null THEN rms
  ELSE LET dt == IF g.lastUpdateTime = Null THEN 0
                 ELSE Max2(0, now - Val(g.lastUpdateTime))
           alpha == IF dt > 0 THEN 1000 - ExpNeg(dt) ELSE 1000
       IN ((1000 - alpha) * Val(g.smoothedRms) + alpha * rms) \div 1000

AgcDesiredGain(smoothed) == Clamp((TargetRms * 1000) \div (smoothed + Epsilon))

\* update(rms) at time now: the controller afterwards
AgcStateTouchingTime(g, rms, now) ==
  IF ~IsFinite(rms) THEN [g EXCEPT !.lastUpdateTime = Some(now)]
  ELSE LET s == AgcSmooth(g, rms.v, now)
       IN [smoothedRms |-> Some(s), lastUpdateTime |-> Some(now),
           currentGain |-> AgcDesiredGain(s),
           nodeValue |-> NodeGainAt(g, now), nodeTarget |-> AgcDesiredGain(s),
           nodeTime |-> Some(now)]
AgcState(g, rms, now) ==
  IF ~IsFinite(rms) THEN g
  ELSE LET s == AgcSmooth(g, rms.v, now)
       IN [smoothedRms |-> Some(s), lastUpdateTime |-> Some(now),
           currentGain |-> AgcDesiredGain(s),
           nodeValue |-> NodeGainAt(g, now), nodeTarget |-> AgcDesiredGain(s),
           nodeTime |-> Some(now)]

\* update(rms) at time now: the value returned
AgcReturn(g, rms, now) ==
  LET after == AgcState(g, rms, now)
  IN [smoothedRms |-> IF after.smoothedRms = Null THEN Fin(0)
                      ELSE Fin(Val(after.smoothedRms)),
      gain |-> after.currentGain]

----------------------------------------------------------------------------
(* yin.js: YinPitchDetector.  Samples are whole numbers or NaN; the values  *)
(* of the cumulative mean normalized difference are exact fractions n/d     *)
(* (d > 0, lowest terms) or NaN, so that every comparison the code makes    *)
(* comes out as it does on the floats, whose rounding to 32 bits keeps the  *)
(* order of fractions this small.  Frequencies are in cycles per sample:    *)
(* sampleRate is the unit.                                                  *)

YinBufferSize == 8
HalfBuffer == YinBufferSize \div 2
YinThreshold == 100
ProbabilityThreshold == 150
\* the threshold PitchTracker passes, and a lax one
YinThresholds == {YinThreshold, 950}

RECURSIVE GCD(_, _)
GCD(a, b) == IF b = 0 THEN a ELSE GCD(b, a % b)

Q(n, d) ==
  LET g == GCD(Abs(n), Abs(d))
      sgn == IF d < 0 THEN -1 ELSE 1
  IN [k |-> "fin", n |-> (sgn * n) \div g, d |-> (sgn * d) \div g]
QNaN == [k |-> "nan", n |-> 0, d |-> 1]
QInf == [k |-> "inf", n |-> 0, d |-> 1]
\* x < y on floats: false when either is NaN
QLess(x, y) == x.k = "fin" /\ y.k = "fin" /\ x.n * y.d < y.n * x.d

\* new YinPitchDetector(sampleRate, {threshold, probabilityThreshold, bufferSize})
YinNew(threshold, probabilityThreshold) ==
  [threshold |-> threshold, probabilityThreshold |-> probabilityThreshold,
   difference |-> [tau \in 0..(HalfBuffer - 1) |-> Fin(0)],
   cumulativeMean |-> [tau \in 0..(HalfBuffer - 1) |-> Q(0, 1)]]

\* the inner loop of _difference from i on: the sum of (buffer[i] - buffer[i + tau])^2
RECURSIVE DifferenceSum(_, _, _)
DifferenceSum(buf, tau, i) ==
  IF i >= HalfBuffer THEN Fin(0)
  ELSE LET rest == DifferenceSum(buf, tau, i + 1)
           a == buf[i + 1]
           b == buf[i + tau + 1]
       IN IF IsFinite(a) /\ IsFinite(b) /\ IsFinite(rest)
          THEN Fin((a.v - b.v) * (a.v - b.v) + rest.v) ELSE NaN

\* _difference(buffer): this.difference afterwards
Difference(difference, buf) ==
  [tau \in DOMAIN difference |->
     IF tau = 0 THEN Fin(0) ELSE DifferenceSum(buf, tau, 0)]

\* runningSum after the iteration for tau
RECURSIVE RunningSum(_, _)
RunningSum(difference, tau) ==
  IF tau = 0 THEN Fin(0)
  ELSE LET rest == RunningSum(difference, tau - 1)
       IN IF IsFinite(rest) /\ IsFinite(difference[tau])
          THEN Fin(rest.v + difference[tau].v) ELSE NaN

\* one that writes nothing where runningSum is 0
CumulativeMeanLeavingStale(cumulativeMean, difference) ==
  [tau \in DOMAIN cumulativeMean |->
     IF tau = 0 THEN Q(1, 1)
     ELSE LET runningSum == RunningSum(difference, tau)
          IN IF ~IsFinite(runningSum) THEN QNaN
             ELSE IF runningSum.v # 0 THEN Q(difference[tau].v * tau, runningSum.v)
             ELSE cumulativeMean[tau]]
\* _cumulativeMeanNormalizedDifference(): this.cumulativeMean afterwards
CumulativeMeanNormalizedDifference(cumulativeMean, difference) ==
  [tau \in DOMAIN cumulativeMean |->
     IF tau = 0 THEN Q(1, 1)
     ELSE LET runningSum == RunningSum(difference, tau)
          IN IF ~IsFinite(runningSum) THEN QNaN
             ELSE IF runningSum.v # 0 THEN Q(difference[tau].v * tau, runningSum.v)
             ELSE Q(1, 1)]

\* this.cumulativeMean[tau] < this.threshold, the threshold in 1/1000
BelowYinThreshold(x, threshold) == x.k = "fin" /\ x.n * 1000 < threshold * x.d

\* the while loop of _absoluteThreshold
RECURSIVE Descend(_, _)
Descend(cumulativeMean, tau) ==
  IF tau + 1 < HalfBuffer /\ QLess(cumulativeMean[tau + 1], cumulativeMean[tau])
  THEN Descend(cumulativeMean, tau + 1)
  ELSE tau

\* the for loop of _absoluteThreshold from tau on
RECURSIVE AbsoluteThresholdFrom(_, _, _)
AbsoluteThresholdFrom(cumulativeMean, threshold, tau) ==
  IF tau >= HalfBuffer THEN -1
  ELSE IF BelowYinThreshold(cumulativeMean[tau], threshold)
  THEN Descend(cumulativeMean, tau)
  ELSE AbsoluteThresholdFrom(cumulativeMean, threshold, tau + 1)

\* one that stops at the first tau below the threshold
AbsoluteThresholdFirstBelow(cumulativeMean, threshold) ==
  LET below == {t \in 2..(HalfBuffer - 1) :
                  BelowYinThreshold(cumulativeMean[t], threshold)}
  IN IF below = {} THEN -1 ELSE CHOOSE t \in below : \A u \in below : t <= u
\* _absoluteThreshold()
AbsoluteThreshold(cumulativeMean, threshold) ==
  AbsoluteThresholdFrom(cumulativeMean, threshold, 2)

\* tau + (s2 - s0) / (2 * (2 * s1 - s2 - s0)), over the common denominator of the three
BetterTau(tau, s0, s1, s2) ==
  IF s0.k # "fin" \/ s1.k # "fin" \/ s2.k # "fin" THEN QNaN
  ELSE LET n0 == s0.n * s1.d * s2.d
           n1 == s1.n * s0.d * s2.d
           n2 == s2.n * s0.d * s1.d
           num == n2 - n0
           den == 2 * (2 * n1 - n2 - n0)
       IN IF den = 0 THEN (IF num = 0 THEN QNaN ELSE QInf)
          ELSE Q(tau * den + num, den)

\* one without the isFinite test
ParabolicInterpolationUnchecked(cumulativeMean, tau) ==
  IF tau < 1 \/ tau + 1 >= HalfBuffer THEN Q(tau, 1)
  ELSE BetterTau(tau, cumulativeMean[tau - 1], cumulativeMean[tau],
                 cumulativeMean[tau + 1])
\* _parabolicInterpolation(tau)
ParabolicInterpolation(cumulativeMean, tau) ==
  IF tau < 1 \/ tau + 1 >= HalfBuffer THEN Q(tau, 1)
  ELSE LET betterTau == BetterTau(tau, cumulativeMean[tau - 1], cumulativeMean[tau],
                                  cumulativeMean[tau + 1])
       IN IF betterTau.k = "fin" THEN betterTau ELSE Q(tau, 1)

\* this.sampleRate / betterTau
YinFrequency(betterTau) ==
  IF betterTau.k = "nan" THEN QNaN
  ELSE IF betterTau.k = "inf" THEN Q(0, 1)
  ELSE IF betterTau.n = 0 THEN QInf
  ELSE Q(betterTau.d, betterTau.n)

\* 1 - this.cumulativeMean[tau]
YinProbability(cumulativeMean, tau) ==
  IF cumulativeMean[tau].k # "fin" THEN QNaN
  ELSE Q(cumulativeMean[tau].d - cumulativeMean[tau].n, cumulativeMean[tau].d)

\* one that lets every candidate through
YinNeverRejects(probability, probabilityThreshold) == FALSE
\* probability < this.probabilityThreshold
YinRejects(probability, probabilityThreshold) ==
  probability.k = "fin" /\ probability.n * 1000 < probabilityThreshold * probability.d

\* getPitch(buffer) on a detector: the detector afterwards, the tau of the search,
\* the refined tau, the value returned
YinGetPitchOn(det, buf) ==
  LET difference == Difference(det.difference, buf)
      cumulativeMean == CumulativeMeanNormalizedDifference(det.cumulativeMean,
                                                           difference)
      tau == AbsoluteThreshold(cumulativeMean, det.threshold)
      betterTau == ParabolicInterpolation(cumulativeMean, tau)
      frequency == YinFrequency(betterTau)
      probability == YinProbability(cumulativeMean, tau)
  IN [detector |-> [det EXCEPT !.difference = difference,
                               !.cumulativeMean = cumulativeMean],
      tau |-> tau,
      betterTau |-> IF tau = -1 THEN Null ELSE Some(betterTau),
      result |-> IF tau = -1 THEN Null
                 ELSE IF YinRejects(probability, det.probabilityThreshold) THEN Null
                 ELSE Some([frequency |-> frequency, probability |-> probability])]

----------------------------------------------------------------------------
(* pitch.js: PitchTracker *)

RmsThreshold == 10000
DefaultBufferSize == 2048

\* analyser.fftSize = n is accepted: n is a power of two from 32 to 32768
ValidFftSize(n) == \E e \in 5..15 : n = 2^e
CallIds == 1..MaxCalls

\* A frame the analyser delivers: its samples, and what YinPitchDetector.getPitch
\* returns on them (null, or a frequency and a probability).
Tone(f) == Some([frequency |-> f, probability |-> 900])
Frames ==
  {[samples |-> <<Fin(0), Fin(0)>>, est |-> Null],
   [samples |-> <<Fin(5), Fin(-5)>>, est |-> Tone(440)],
   [samples |-> <<Fin(10), Fin(-10)>>, est |-> Tone(440)],
   [samples |-> <<Fin(200), Fin(-200)>>, est |-> Null],
   [samples |-> <<Fin(200), Fin(-200)>>, est |-> Tone(440)],
   [samples |-> <<NaN, Fin(200)>>, est |-> Null]}
\* the frames the poll loop is fed: one in which the estimator finds no pitch, and a
\* tone at each of five pitches
PollFrames ==
  {[samples |-> <<Fin(200), Fin(-200)>>, est |-> Null]}
  \cup {[samples |-> <<Fin(200), Fin(-200)>>, est |-> Tone(f)] :
          f \in {50, 440, 600, 700, 3000}}

RECURSIVE SqrtIn(_, _, _)
SqrtIn(n, lo, hi) ==
  IF lo >= hi THEN lo
  ELSE LET mid == (lo + hi + 1) \div 2
       IN IF mid * mid <= n THEN SqrtIn(n, mid, hi) ELSE SqrtIn(n, lo, mid - 1)
Sqrt(n) == SqrtIn(n, 0, Min2(n, 46340))

RECURSIVE SumSquares(_, _)
SumSquares(buf, i) ==
  IF i > Len(buf) THEN Fin(0)
  ELSE LET rest == SumSquares(buf, i + 1)
       IN IF IsFinite(buf[i]) /\ IsFinite(rest)
          THEN Fin(buf[i].v * buf[i].v + rest.v) ELSE NaN

RECURSIVE PeakOf(_, _)
PeakOf(buf, i) ==
  IF i = 0 THEN 0
  ELSE LET peak == PeakOf(buf, i - 1)
       IN IF IsFinite(buf[i]) /\ Abs(buf[i].v) > peak THEN Abs(buf[i].v) ELSE peak

\* _analyseAmplitude: rms in 1e-6, peak in 1/1000
AnalyseAmplitude(buf) ==
  LET sum == SumSquares(buf, 1)
  IN [rms |-> IF IsFinite(sum) THEN Fin(Sqrt(sum.v \div Len(buf)) * 1000) ELSE NaN,
      peak |-> PeakOf(buf, Len(buf))]

\* rms < this.rmsThreshold
NeverBelowThreshold(rms) == FALSE
BelowThreshold(rms) == IsFinite(rms) /\ rms.v < RmsThreshold

\* the guard of getPitch, negated
ActiveIgnoringContext == initialized /\ analyser
GetPitchActive ==
  initialized /\ analyser /\ audioContext # Null /\ Val(audioContext) = "running"

\* this.autoGain ? this.autoGain.update(rms) : {smoothedRms: rms, gain: 1}
GetPitchGainMetrics(rms) ==
  IF autoGain # Null THEN AgcReturn(Val(autoGain), rms, clock)
  ELSE [smoothedRms |-> rms, gain |-> 1000]

\* what getPitch returns on a frame
GetPitchReturn(frame) ==
  IF ~GetPitchActive THEN Null
  ELSE LET amp == AnalyseAmplitude(frame.samples)
           gm == GetPitchGainMetrics(amp.rms)
           silent == [frequency |-> Null, probability |-> 0, rms |-> amp.rms,
                      peak |-> amp.peak, smoothedRms |-> gm.smoothedRms,
                      gain |-> gm.gain]
       IN IF BelowThreshold(amp.rms) THEN Some(silent)
          ELSE IF frame.est = Null THEN Some(silent)
          ELSE Some([silent EXCEPT !.frequency = Some(Val(frame.est).frequency),
                                   !.probability = Val(frame.est).probability])

\* the calls getPitch makes on a frame, in order
GetPitchCalls(frame) ==
  IF ~GetPitchActive THEN <<>>
  ELSE <<"getFloatTimeDomainData", "_analyseAmplitude">>
       \o (IF autoGain # Null THEN <<"autoGain.update">> ELSE <<>>)
       \o (IF BelowThreshold(AnalyseAmplitude(frame.samples).rms) THEN <<>>
           ELSE <<"yin.getPitch">>)

\* any other call of the tracker: what the last getPitch did is history no more
NoGetPitch ==
  /\ agcCall' = Null
  /\ guardSeen' = Null
  /\ estimation' = Null
  /\ callLog' = <<>>

\* getPitch as a step of the tracker
TrackerGetPitch(frame) ==
  /\ estimation' = GetPitchReturn(frame)
  /\ callLog' = GetPitchCalls(frame)
  /\ guardSeen' = Some([initialized |-> initialized, analyser |-> analyser,
                        audioContext |-> audioContext])
  /\ IF GetPitchActive
     THEN LET rms == AnalyseAmplitude(frame.samples).rms
          IN /\ buffer' = TRUE
             /\ agcCall' = IF autoGain # Null
                           THEN Some([rms |-> rms, now |-> clock,
                                      ret |-> GetPitchGainMetrics(rms)])
                           ELSE Null
             /\ autoGain' = IF autoGain # Null
                            THEN Some(AgcState(Val(autoGain), rms, clock))
                            ELSE autoGain
     ELSE agcCall' = Null /\ UNCHANGED <<buffer, autoGain>>
  /\ UNCHANGED <<initialized, stream, audioContext, source, analyser, yin, calls,
                 stopCalled>>

\* start() from "if (this.audioContext?.state === 'suspended')" on
AfterInit(ctx) ==
  IF ctx # Null /\ Val(ctx) = "suspended" THEN "awaitResume" ELSE "resolved"

\* start(), up to its first await that yields to the event loop
TrackerStartBegin(c) ==
  /\ calls[c] = "idle"
  /\ calls' = [calls EXCEPT ![c] =
                 IF initialized THEN AfterInit(audioContext)
                 ELSE IF ~hasMediaDevices THEN "rejected"
                 ELSE "awaitStream"]
  /\ stopCalled' = FALSE
  /\ UNCHANGED <<initialized, stream, audioContext, source, analyser, autoGain,
                 buffer, yin>>
  /\ NoGetPitch

\* getUserMedia resolves: the rest of init(), then start() goes on
TrackerStreamGranted(c, ctxState) ==
  /\ calls[c] = "awaitStream"
  /\ ValidFftSize(bufferSize)
  /\ stream' = TRUE
  /\ audioContext' = Some(ctxState)
  /\ source' = TRUE
  /\ autoGain' = Some(AgcNew)
  /\ analyser' = TRUE
  /\ buffer' = TRUE
  /\ yin' = TRUE
  /\ initialized' = TRUE
  /\ calls' = [d \in CallIds |->
                 IF d = c THEN AfterInit(Some(ctxState))
                 ELSE IF calls[d] = "awaitResume" THEN "awaitResumeOld"
                 ELSE calls[d]]
  /\ UNCHANGED stopCalled
  /\ NoGetPitch

\* getUserMedia resolves, and this.analyser.fftSize = this.bufferSize throws:
\* init() and start() reject with what init() had assigned by then
TrackerInitThrows(c, ctxState) ==
  /\ calls[c] = "awaitStream"
  /\ ~ValidFftSize(bufferSize)
  /\ stream' = TRUE
  /\ audioContext' = Some(ctxState)
  /\ source' = TRUE
  /\ autoGain' = Some(AgcNew)
  /\ analyser' = TRUE
  /\ calls' = [d \in CallIds |->
                 IF d = c THEN "rejected"
                 ELSE IF calls[d] = "awaitResume" THEN "awaitResumeOld"
                 ELSE calls[d]]
  /\ UNCHANGED <<initialized, buffer, yin, stopCalled>>
  /\ NoGetPitch

\* getUserMedia rejects: init() and start() reject
TrackerStreamDenied(c) ==
  /\ calls[c] = "awaitStream"
  /\ calls' = [calls EXCEPT ![c] = "rejected"]
  /\ UNCHANGED <<initialized, stream, audioContext, source, analyser, autoGain,
                 buffer, yin, stopCalled>>
  /\ NoGetPitch

\* audioContext.resume() settles
TrackerResumeSettled(c) ==
  /\ calls[c] \in {"awaitResume", "awaitResumeOld", "awaitResumeClosed"}
  /\ calls' = [calls EXCEPT ![c] =
                 IF calls[c] = "awaitResumeClosed" THEN "rejected" ELSE "resolved"]
  /\ audioContext' = IF calls[c] = "awaitResume" THEN Some("running")
                     ELSE audioContext
  /\ UNCHANGED <<initialized, stream, source, analyser, autoGain, buffer, yin,
                 stopCalled>>
  /\ NoGetPitch

\* one that leaves the initialized flag as it is
TrackerStopKeepingInitialized ==
  /\ source' = FALSE
  /\ analyser' = FALSE
  /\ autoGain' = Null
  /\ stream' = FALSE
  /\ audioContext' = Null
  /\ buffer' = FALSE
  /\ yin' = FALSE
  /\ initialized' = initialized
  /\ calls' = [d \in CallIds |->
                 IF calls[d] = "awaitResume" THEN "awaitResumeClosed" ELSE calls[d]]
  /\ stopCalled' = TRUE
  /\ NoGetPitch

\* stop()
TrackerStop ==
  /\ source' = FALSE
  /\ analyser' = FALSE
  /\ autoGain' = Null
  /\ stream' = FALSE
  /\ audioContext' = Null
  /\ buffer' = FALSE
  /\ yin' = FALSE
  /\ initialized' = FALSE
  /\ calls' = [d \in CallIds |->
                 IF calls[d] = "awaitResume" THEN "awaitResumeClosed" ELSE calls[d]]
  /\ stopCalled' = TRUE
  /\ NoGetPitch

----------------------------------------------------------------------------
(* note.js: frequencyToNoteData *)

NoteData(frequency) ==
  IF frequency <= 0 THEN Null ELSE Some([frequency |-> frequency])

\* The rest of the note datum, for a frequency given by its distance from A4 in
\* semitones: frequency = 440 * 2^(semitones / 12), so that midi = 69 + semitones.
NOTE_NAMES == <<"C", "C#", "D", "D#", "E", "F", "F#", "G", "G#", "A", "A#", "B">>

\* a % b of JavaScript, b > 0: the remainder has the sign of a
JsRem(a, b) == IF a >= 0 THEN a % b ELSE -((-a) % b)

\* (nearestMidi + 1200) % 12
NoteIndex(nearestMidi) == JsRem(nearestMidi + 1200, 12)

\* NOTE_NAMES[noteIndex]: undefined outside the table
NoteNameAt(noteIndex) ==
  IF noteIndex \in 0..11 THEN NOTE_NAMES[noteIndex + 1] ELSE "undefined"

\* frequencyToNoteData(frequency): null for a frequency that is 0, NaN or negative
\* (given as null), else the datum
FrequencyToNoteData(semitones) ==
  IF semitones = Null THEN Null
  ELSE LET midi == 69 + Val(semitones)
           nearestMidi == midi
           noteIndex == NoteIndex(nearestMidi)
           octave == (nearestMidi \div 12) - 1
       IN Some([midi |-> midi, nearestMidi |-> nearestMidi, noteIndex |-> noteIndex,
                cents |-> 0, note |-> NoteNameAt(noteIndex), octave |-> octave])

----------------------------------------------------------------------------
(* main.js: the start button and the poll loop *)

MIN_VALID_FREQ == 110
MAX_VALID_FREQ == 1660
MAX_JUMP_HZ == 160
MAX_GAP_MS == 200
MISS_THRESHOLD == 4

AppCall == 1
ClockSteps == {5 * UPDATE_INTERVAL_MS}

\* !estimation || !estimation.frequency || !Number.isFinite(estimation.frequency)
IsMiss(est) ==
  est = Null \/ Val(est).frequency = Null \/ Val(Val(est).frequency) = 0

\* Math.min(Math.max(frequency, MIN_VALID_FREQ), MAX_VALID_FREQ)
ClampFreqNoMax(frequency) == Max2(frequency, MIN_VALID_FREQ)
ClampFreq(frequency) == Min2(Max2(frequency, MIN_VALID_FREQ), MAX_VALID_FREQ)

\* the jump check: the clamped frequency is discarded
JumpTooLargeEvenAfterGap(frequency, timestamp) ==
  /\ lastDetectionTime # 0
  /\ lastFrequency # Null
  /\ Abs(frequency - Val(lastFrequency)) > MAX_JUMP_HZ
JumpTooLarge(frequency, timestamp) ==
  /\ lastDetectionTime # 0
  /\ timestamp - lastDetectionTime < MAX_GAP_MS
  /\ lastFrequency # Null
  /\ Abs(frequency - Val(lastFrequency)) > MAX_JUMP_HZ

\* missCounter === MISS_THRESHOLD
AtOrPastThreshold(count) == count >= MISS_THRESHOLD
AtThreshold(count) == count = MISS_THRESHOLD

\* if (timer) clearInterval(timer): the intervals still set
ClearInterval(timer) == IF timer # Null THEN timers \ {Val(timer)} ELSE timers
\* the id setInterval returns: one no interval that is set has
SetInterval(set) == CHOOSE id \in 1..(Cardinality(set) + 1) : id \notin set

NoPoll == [frequency |-> Null, missCounter |-> 0, lastFrequency |-> Null,
           lastDetectionTime |-> 0]

\* the setInterval callback on what getPitch returned, at a timestamp
PollCallback(est, timestamp) ==
  IF IsMiss(est)
  THEN /\ missCounter' = missCounter + 1
       /\ IF AtThreshold(missCounter + 1)
          THEN /\ statusMessage' = "clearTone"
               /\ readouts' = Null
               /\ pollOutcome' = "lostLock"
          ELSE /\ pollOutcome' = "miss"
               /\ UNCHANGED <<statusMessage, readouts>>
       /\ UNCHANGED <<lastDetectionTime, lastFrequency>>
  ELSE /\ missCounter' = 0
       /\ LET frequency == ClampFreq(Val(Val(est).frequency))
          IN IF Val(Val(est).frequency) <= 0
             THEN /\ pollOutcome' = "nonpositive"
                  /\ UNCHANGED <<lastDetectionTime, lastFrequency, statusMessage,
                                 readouts>>
             ELSE IF JumpTooLarge(frequency, timestamp)
             THEN /\ pollOutcome' = "rejected"
                  /\ UNCHANGED <<lastDetectionTime, lastFrequency, statusMessage,
                                 readouts>>
             ELSE /\ lastDetectionTime' = timestamp
                  /\ lastFrequency' = Some(frequency)
                  /\ IF NoteData(frequency) = Null
                     THEN /\ pollOutcome' = "unmapped"
                          /\ UNCHANGED <<statusMessage, readouts>>
                     ELSE /\ readouts' = Some(Val(NoteData(frequency)).frequency)
                          /\ statusMessage' = ""
                          /\ pollOutcome' = "accepted"

\* one tick of the interval timer
PollTick ==
  /\ timers # {}
  /\ \E frame \in PollFrames :
       /\ IsMiss(GetPitchReturn(frame)) => missRun < MaxMisses
       /\ TrackerGetPitch(frame)
       /\ PollCallback(GetPitchReturn(frame), clock)
       /\ missRun' = IF GetPitchReturn(frame) = Null
                        \/ Val(GetPitchReturn(frame)).frequency = Null
                     THEN missRun + 1 ELSE 0
       /\ pollSaw' = [frequency |-> IF GetPitchReturn(frame) = Null THEN Null
                                    ELSE Val(GetPitchReturn(frame)).frequency,
                      missCounter |-> missCounter, lastFrequency |-> lastFrequency,
                      lastDetectionTime |-> lastDetectionTime]
  /\ pollTime' = clock
  /\ UNCHANGED <<clock, envVars, pollTimer, timers, isRunning,
                 isInitializing, buttonDisabled, stoppedWithState>>

\* a click while neither running nor initializing: startListening up to its await
ClickStart ==
  /\ ~isInitializing
  /\ ~isRunning
  /\ isInitializing' = TRUE
  /\ statusMessage' = "requesting"
  /\ buttonDisabled' = TRUE
  /\ lastDetectionTime' = 0
  /\ lastFrequency' = Null
  /\ TrackerStartBegin(AppCall)
  /\ UNCHANGED <<clock, envVars, pollTimer, timers, isRunning,
                 missCounter, readouts, pollOutcome, pollTime, pollSaw, missRun,
                 stoppedWithState>>

\* tracker.start() resolved: the rest of the try block, startPolling, finally
StartResolved ==
  /\ isInitializing
  /\ calls[AppCall] = "resolved"
  /\ calls' = [calls EXCEPT ![AppCall] = "idle"]
  /\ missCounter' = 0
  /\ missRun' = 0
  /\ pollOutcome' = "idle"
  /\ pollTime' = 0
  /\ pollSaw' = NoPoll
  /\ pollTimer' = Some(SetInterval(ClearInterval(pollTimer)))
  /\ timers' = ClearInterval(pollTimer) \cup {SetInterval(ClearInterval(pollTimer))}
  /\ isRunning' = TRUE
  /\ statusMessage' = "listening"
  /\ buttonDisabled' = FALSE
  /\ isInitializing' = FALSE
  /\ UNCHANGED <<clock, envVars, lastDetectionTime, lastFrequency, readouts,
                 stoppedWithState,
                 initialized, stream, audioContext, source, analyser, autoGain,
                 buffer, yin, agcCall, guardSeen, estimation, callLog, stopCalled>>

\* one without the finally block
StartRejectedWithoutFinally ==
  /\ isInitializing
  /\ calls[AppCall] = "rejected"
  /\ calls' = [calls EXCEPT ![AppCall] = "idle"]
  /\ statusMessage' = "error"
  /\ UNCHANGED <<clock, envVars, pollTimer, timers, isRunning, isInitializing,
                 buttonDisabled,
                 missCounter, lastDetectionTime, lastFrequency, readouts, pollOutcome,
                 pollTime, pollSaw, missRun, stoppedWithState, initialized, stream,
                 audioContext,
                 source, analyser, autoGain, buffer, yin, agcCall, guardSeen,
                 estimation, callLog, stopCalled>>
\* tracker.start() rejected: catch, finally
StartRejected ==
  /\ isInitializing
  /\ calls[AppCall] = "rejected"
  /\ calls' = [calls EXCEPT ![AppCall] = "idle"]
  /\ statusMessage' = "error"
  /\ buttonDisabled' = FALSE
  /\ isInitializing' = FALSE
  /\ UNCHANGED <<clock, envVars, pollTimer, timers, isRunning,
                 missCounter, lastDetectionTime, lastFrequency, readouts, pollOutcome,
                 pollTime, pollSaw, missRun, stoppedWithState, initialized, stream,
                 audioContext,
                 source, analyser, autoGain, buffer, yin, agcCall, guardSeen,
                 estimation, callLog, stopCalled>>

\* stopListening()
StopListeningKeepsState ==
  /\ pollTimer' = Null
  /\ timers' = ClearInterval(pollTimer)
  /\ TrackerStop
  /\ readouts' = Null
  /\ isRunning' = FALSE
  /\ statusMessage' = "stopped"
  /\ buttonDisabled' = FALSE
  /\ missRun' = 0
  /\ pollOutcome' = "idle"
  /\ pollTime' = 0
  /\ pollSaw' = NoPoll
  /\ stoppedWithState' = (lastFrequency # Null /\ autoGain # Null
                           /\ Val(autoGain).smoothedRms # Null)
  /\ UNCHANGED <<clock, envVars, isInitializing, missCounter,
                 lastDetectionTime, lastFrequency>>
\* one that forgets the timer without clearing it
StopListeningLeavingTimer ==
  /\ pollTimer' = Null
  /\ timers' = timers
  /\ TrackerStop
  /\ readouts' = Null
  /\ isRunning' = FALSE
  /\ missCounter' = 0
  /\ lastDetectionTime' = 0
  /\ lastFrequency' = Null
  /\ statusMessage' = "stopped"
  /\ buttonDisabled' = FALSE
  /\ missRun' = 0
  /\ pollOutcome' = "idle"
  /\ pollTime' = 0
  /\ pollSaw' = NoPoll
  /\ stoppedWithState' = (lastFrequency # Null /\ autoGain # Null
                           /\ Val(autoGain).smoothedRms # Null)
  /\ UNCHANGED <<clock, envVars, isInitializing>>
\* stopListening()
StopListening ==
  /\ pollTimer' = Null
  /\ timers' = ClearInterval(pollTimer)
  /\ TrackerStop
  /\ readouts' = Null
  /\ isRunning' = FALSE
  /\ missCounter' = 0
  /\ lastDetectionTime' = 0
  /\ lastFrequency' = Null
  /\ statusMessage' = "stopped"
  /\ buttonDisabled' = FALSE
  /\ missRun' = 0
  /\ pollOutcome' = "idle"
  /\ pollTime' = 0
  /\ pollSaw' = NoPoll
  /\ stoppedWithState' = (lastFrequency # Null /\ autoGain # Null
                           /\ Val(autoGain).smoothedRms # Null)
  /\ UNCHANGED <<clock, envVars, isInitializing>>

\* a click while running
ClickStop ==
  /\ ~isInitializing
  /\ isRunning
  /\ StopListening

\* a click while a start is in flight: the handler returns at once
ClickIgnored ==
  /\ isInitializing
  /\ UNCHANGED vars

\* the beforeunload handler
BeforeUnload ==
  /\ timers' = ClearInterval(pollTimer)
  /\ TrackerStop
  /\ UNCHANGED <<clock, envVars, pollTimer, isRunning, isInitializing,
                 missCounter, lastDetectionTime, lastFrequency, statusMessage,
                 readouts, buttonDisabled, pollOutcome, pollTime, pollSaw,
                 missRun, stoppedWithState>>

\* time passes
ClockAdvance ==
  /\ \E d \in ClockSteps : clock + d <= MaxClock /\ clock' = clock + d
  /\ UNCHANGED <<envVars, appVars, trackerVars>>

\* the settling of what the app's tracker.start() awaits
StreamGranted ==
  /\ \E ctxState \in {"suspended", "running"} : TrackerStreamGranted(AppCall, ctxState)
  /\ UNCHANGED <<clock, envVars, appVars>>
StreamDenied ==
  /\ TrackerStreamDenied(AppCall)
  /\ UNCHANGED <<clock, envVars, appVars>>
ResumeSettled ==
  /\ TrackerResumeSettled(AppCall)
  /\ UNCHANGED <<clock, envVars, appVars>>

\* main.js as loaded
AppAtLoad ==
  /\ pollTimer = Null
  /\ timers = {}
  /\ isRunning = FALSE
  /\ isInitializing = FALSE
  /\ missCounter = 0
  /\ lastDetectionTime = 0
  /\ lastFrequency = Null
  /\ statusMessage = "initial"
  /\ readouts = Null
  /\ buttonDisabled = FALSE
  /\ pollOutcome = "idle"
  /\ pollTime = 0
  /\ pollSaw = NoPoll
  /\ missRun = 0
  /\ stoppedWithState = FALSE

\* new PitchTracker()
TrackerNew ==
  /\ initialized = FALSE
  /\ stream = FALSE
  /\ audioContext = Null
  /\ source = FALSE
  /\ analyser = FALSE
  /\ autoGain = Null
  /\ buffer = FALSE
  /\ yin = FALSE
  /\ calls = [c \in CallIds |-> "idle"]
  /\ agcCall = Null
  /\ guardSeen = Null
  /\ estimation = Null
  /\ callLog = <<>>
  /\ stopCalled = FALSE

\* no YinPitchDetector and no frequencyToNoteData call of their own
NoPureCall ==
  /\ detector = Null
  /\ yinInput = <<>>
  /\ yinCall = Null
  /\ noteInput = Null
  /\ noteCall = Null

Init ==
  /\ clock = 0
  /\ hasMediaDevices \in BOOLEAN
  /\ bufferSize = DefaultBufferSize
  /\ NoPureCall
  /\ AppAtLoad
  /\ TrackerNew

Next ==
  \/ ClickStart
  \/ ClickStop
  \/ ClickIgnored
  \/ StartResolved
  \/ StartRejected
  \/ StreamGranted
  \/ StreamDenied
  \/ ResumeSettled
  \/ PollTick
  \/ BeforeUnload
  \/ ClockAdvance

\* the page: the button, the timer, the tracker behind them
Spec == Init /\ [][Next]_vars

\* the page while it stays: clicks, timer ticks and what the start awaits
NextButton ==
  \/ ClickStart
  \/ ClickStop
  \/ ClickIgnored
  \/ StartResolved
  \/ StartRejected
  \/ StreamGranted
  \/ StreamDenied
  \/ ResumeSettled
  \/ PollTick
  \/ ClockAdvance

SpecButton == Init /\ [][NextButton]_vars

\* the continuation of startListening runs once the promise it awaits has settled
SpecButtonFair ==
  SpecButton /\ WF_vars(StartResolved) /\ WF_vars(StartRejected)

----------------------------------------------------------------------------
(* PitchTracker driven directly: any interleaving of start, stop and getPitch *)

CallStart ==
  /\ \E c \in CallIds : TrackerStartBegin(c)
  /\ UNCHANGED <<clock, envVars, appVars>>
CallStreamGranted ==
  /\ \E c \in CallIds, ctxState \in {"suspended", "running"} :
       TrackerStreamGranted(c, ctxState)
  /\ UNCHANGED <<clock, envVars, appVars>>
CallInitThrows ==
  /\ \E c \in CallIds, ctxState \in {"suspended", "running"} :
       TrackerInitThrows(c, ctxState)
  /\ UNCHANGED <<clock, envVars, appVars>>
CallStreamDenied ==
  /\ \E c \in CallIds : TrackerStreamDenied(c)
  /\ UNCHANGED <<clock, envVars, appVars>>
CallResumeSettled ==
  /\ \E c \in CallIds : TrackerResumeSettled(c)
  /\ UNCHANGED <<clock, envVars, appVars>>
\* the caller of start() sees it settle
CallSettled ==
  /\ \E c \in CallIds :
       /\ calls[c] \in {"resolved", "rejected"}
       /\ calls' = [calls EXCEPT ![c] = "idle"]
  /\ UNCHANGED <<clock, envVars, appVars, initialized, stream, audioContext,
                 source, analyser, autoGain, buffer, yin, agcCall, guardSeen,
                 estimation, callLog, stopCalled>>
CallStop ==
  /\ TrackerStop
  /\ UNCHANGED <<clock, envVars, appVars>>
CallGetPitch ==
  /\ \E frame \in Frames : TrackerGetPitch(frame)
  /\ UNCHANGED <<clock, envVars, appVars>>

NextTracker ==
  \/ CallStart
  \/ CallStreamGranted
  \/ CallInitThrows
  \/ CallStreamDenied
  \/ CallResumeSettled
  \/ CallSettled
  \/ CallStop
  \/ CallGetPitch

\* new PitchTracker({bufferSize}), with the default and with sizes that are no
\* power of two
BufferSizes == {DefaultBufferSize, 1000, 2047}
InitTracker ==
  /\ clock = 0
  /\ hasMediaDevices \in BOOLEAN
  /\ bufferSize \in BufferSizes
  /\ NoPureCall
  /\ AppAtLoad
  /\ TrackerNew

\* (the tracker reads the clock only for the gain controller's smoothing: time stands
\* still here, and SpecAGC lets it pass)
SpecTracker == InitTracker /\ [][NextTracker]_vars

\* what a start() call awaits settles (getUserMedia, resume), and its caller then
\* sees start() settle; when start, stop and getPitch are called is up to the caller
SpecTrackerFair ==
  /\ SpecTracker
  /\ WF_vars(CallStreamGranted \/ CallInitThrows \/ CallStreamDenied)
  /\ WF_vars(CallResumeSettled)
  /\ WF_vars(CallSettled)

----------------------------------------------------------------------------
(* AutoGainController driven directly: any sequence of update calls *)

AgcInputs ==
  {Fin(0), Fin(1), Fin(1000), Fin(200000), Fin(2000000), NaN, PosInf, NegInf}

\* new AutoGainController(audioContext, options)
InitAGC ==
  /\ clock = 0
  /\ hasMediaDevices = TRUE
  /\ bufferSize = DefaultBufferSize
  /\ NoPureCall
  /\ AppAtLoad
  /\ initialized = FALSE
  /\ stream = FALSE
  /\ audioContext = Some("running")
  /\ source = FALSE
  /\ analyser = FALSE
  /\ autoGain = Some(AgcNew)
  /\ buffer = FALSE
  /\ yin = FALSE
  /\ calls = [c \in CallIds |-> "idle"]
  /\ agcCall = Null
  /\ guardSeen = Null
  /\ estimation = Null
  /\ callLog = <<>>
  /\ stopCalled = FALSE

\* update(rms)
AgcUpdateWith(rms) ==
  /\ autoGain # Null
  /\ autoGain' = Some(AgcState(Val(autoGain), rms, clock))
  /\ agcCall' = Some([rms |-> rms, now |-> clock,
                      ret |-> AgcReturn(Val(autoGain), rms, clock)])
  /\ UNCHANGED <<clock, envVars, appVars, initialized, stream, audioContext,
                 source, analyser, buffer, yin, calls, guardSeen, estimation, callLog,
                 stopCalled>>
AgcUpdate == \E rms \in AgcInputs : AgcUpdateWith(rms)

NextAGC ==
  \/ AgcUpdate
  \/ ClockAdvance

SpecAGC == InitAGC /\ [][NextAGC]_vars

----------------------------------------------------------------------------
(* YinPitchDetector driven directly: getPitch on one buffer after another *)

YinSamples == {Fin(0), Fin(1), Fin(3)}
\* every buffer of these samples, and each with a NaN at index 2 * halfBuffer - 2,
\* the one sample that enters the difference at the last tau only
YinBuffers ==
  LET finite == [1..YinBufferSize -> YinSamples]
  IN finite \cup {[b EXCEPT ![2 * HalfBuffer - 1] = NaN] : b \in finite}
\* the buffers a later call is given: silence, and a tone of period 2
YinLaterBuffers ==
  {[i \in 1..YinBufferSize |-> Fin(0)],
   [i \in 1..YinBufferSize |-> IF i % 2 = 0 THEN Fin(3) ELSE Fin(0)]}

InitYin ==
  /\ clock = 0
  /\ hasMediaDevices = TRUE
  /\ bufferSize = DefaultBufferSize
  /\ AppAtLoad
  /\ TrackerNew
  /\ noteInput = Null
  /\ noteCall = Null
  /\ detector \in {Some(YinNew(t, ProbabilityThreshold)) : t \in YinThresholds}
  /\ yinInput \in YinBuffers
  /\ yinCall = Null

\* detector.getPitch(yinInput)
YinGetPitch ==
  /\ detector # Null
  /\ yinInput # <<>>
  /\ LET r == YinGetPitchOn(Val(detector), yinInput)
     IN /\ detector' = Some(r.detector)
        /\ yinCall' = Some([buffer |-> yinInput,
                            previous |-> IF yinCall = Null THEN <<>>
                                         ELSE Val(yinCall).buffer,
                            tau |-> r.tau,
                            betterTau |-> r.betterTau,
                            result |-> r.result])
  /\ UNCHANGED <<clock, hasMediaDevices, bufferSize, yinInput, noteInput, noteCall, appVars,
                 trackerVars>>

\* the caller fills its buffer with another frame
YinNextFrame ==
  /\ yinCall # Null
  /\ Val(yinCall).previous = <<>>
  /\ yinInput' \in YinLaterBuffers
  /\ UNCHANGED <<clock, hasMediaDevices, bufferSize, detector, yinCall, noteInput, noteCall,
                 appVars, trackerVars>>

NextYin ==
  \/ YinGetPitch
  \/ YinNextFrame

SpecYin == InitYin /\ [][NextYin]_vars

----------------------------------------------------------------------------
(* frequencyToNoteData called directly, on frequencies down to MaxSemitonesBelow   *)
(* semitones below A4 and up to MaxSemitonesAbove above it                         *)

MaxSemitonesBelow == 1300
MaxSemitonesAbove == 60
NoteInputs ==
  {Null} \cup {Some(k) : k \in (0 - MaxSemitonesBelow)..MaxSemitonesAbove}

InitNote ==
  /\ clock = 0
  /\ hasMediaDevices = TRUE
  /\ bufferSize = DefaultBufferSize
  /\ AppAtLoad
  /\ TrackerNew
  /\ detector = Null
  /\ yinInput = <<>>
  /\ yinCall = Null
  /\ noteInput \in NoteInputs
  /\ noteCall = Null

\* frequencyToNoteData(noteInput)
NoteCall ==
  /\ noteCall' = Some([frequency |-> noteInput,
                       result |-> FrequencyToNoteData(noteInput)])
  /\ UNCHANGED <<clock, hasMediaDevices, bufferSize, detector, yinInput, yinCall, noteInput,
                 appVars, trackerVars>>

NextNote == NoteCall

SpecNote == InitNote /\ [][NextNote]_vars

----------------------------------------------------------------------------
(* The claims.  What a poll saw is read from pollSaw and pollTime, what it   *)
(* did from pollOutcome; the clamp and the conditions are written out here   *)
(* as the specification words them.                                          *)

PollRan == pollOutcome # "idle"
PollNumeric == PollRan /\ pollSaw.frequency # Null /\ Val(pollSaw.frequency) > 0
PollClamped ==
  LET f == Val(pollSaw.frequency)
  IN IF f < 110 THEN 110 ELSE IF f > 1660 THEN 1660 ELSE f
PollElapsed == pollTime - pollSaw.lastDetectionTime
PollJump == Abs(PollClamped - Val(pollSaw.lastFrequency))
\* a previous accepted reading exists, less than MAX_GAP_MS ago, more than
\* MAX_JUMP_HZ away
PollIsJump ==
  /\ PollNumeric
  /\ pollSaw.lastFrequency # Null
  /\ PollElapsed < 200
  /\ PollJump > 160

\* C1: a jump-rejected poll leaves missCounter exactly as it found it: it neither
\* resets it to 0 nor increments it.
C1_JumpRejectedKeepsMissCounter ==
  (PollIsJump /\ pollOutcome = "rejected") => missCounter = pollSaw.missCounter

\* C2: in a session, the lost-lock signal (status message, cleared readouts) is
\* given by exactly the poll that makes the run of polls without a frequency
\* 4 long: not by a shorter run, not by the 5th or a later miss of the run.
C2_LostLockOncePerRun ==
  /\ (pollOutcome = "lostLock") <=> (PollRan /\ missRun = 4)
  /\ pollOutcome = "lostLock" => (statusMessage = "clearTone" /\ readouts = Null)

\* the 5th miss of a run passed without a second signal
C2_FifthMissSilent ==
  /\ missRun = 5
  /\ pollOutcome = "miss"
  /\ statusMessage = "clearTone"

\* C3: whenever a reading was accepted earlier in the session (at any timestamp,
\* 0 included), a numeric reading less than MAX_GAP_MS after it and more than
\* MAX_JUMP_HZ away is discarded: nothing is emitted, lastFrequency and
\* lastDetectionTime keep their values.
C3_JumpIsDiscarded ==
  PollIsJump =>
    /\ pollOutcome = "rejected"
    /\ lastFrequency = pollSaw.lastFrequency
    /\ lastDetectionTime = pollSaw.lastDetectionTime

\* C4: a positive frequency arriving more than MAX_GAP_MS after the last accepted
\* one, or with none accepted yet in the session, is accepted whatever the jump:
\* lastFrequency and lastDetectionTime become the clamped frequency and the poll's
\* timestamp, and the note is shown.  So no reading is rejected later than
\* MAX_GAP_MS after the last acceptance.
C4_AcceptedAfterGap ==
  /\ (PollNumeric /\ (pollSaw.lastFrequency = Null \/ PollElapsed > 200)) =>
       /\ pollOutcome = "accepted"
       /\ lastFrequency = Some(PollClamped)
       /\ lastDetectionTime = pollTime
       /\ readouts = Some(PollClamped)
  /\ pollOutcome = "rejected" => PollElapsed <= 200

\* a jump of more than MAX_JUMP_HZ, accepted more than MAX_GAP_MS after a reading
\* accepted at a timestamp other than 0
C4_BigJumpAcceptedAfterGap ==
  /\ PollNumeric
  /\ pollSaw.lastFrequency # Null
  /\ pollSaw.lastDetectionTime # 0
  /\ PollElapsed > 200
  /\ PollJump > 160
  /\ pollOutcome = "accepted"

\* C5: every frequency handed to the note mapper and shown, and every non-null
\* lastFrequency, lies in [110, 1660], whatever positive frequency the engine
\* reports.
C5_FrequenciesClamped ==
  /\ lastFrequency # Null => (110 <= Val(lastFrequency) /\ Val(lastFrequency) <= 1660)
  /\ readouts # Null => (110 <= Val(readouts) /\ Val(readouts) <= 1660)

\* the engine reported 3000 Hz, and 1660 Hz was accepted and shown
C5_ClampedFromAbove ==
  /\ pollOutcome = "accepted"
  /\ pollSaw.frequency = Some(3000)
  /\ lastFrequency = Some(1660)
  /\ readouts = Some(1660)

YinCalled == \E i \in 1..Len(callLog) : callLog[i] = "yin.getPitch"
RmsBelow(rms) == rms.k = "fin" /\ rms.v < 10000
RmsAtLeast(rms) == rms.k = "fin" /\ rms.v >= 10000
\* a getPitch that found rms below the threshold: no frequency, probability 0, the
\* gain controller's figures, and no call of the estimator
GatedReading ==
  (estimation # Null /\ RmsBelow(Val(estimation).rms)) =>
    /\ Val(estimation).frequency = Null
    /\ Val(estimation).probability = 0
    /\ agcCall # Null
    /\ Val(estimation).smoothedRms = Val(agcCall).ret.smoothedRms
    /\ Val(estimation).gain = Val(agcCall).ret.gain
    /\ ~YinCalled
EstimatorLast ==
  YinCalled =>
    callLog = <<"getFloatTimeDomainData", "_analyseAmplitude", "autoGain.update",
                "yin.getPitch">>

\* C6 as stated: a poll with rms below rmsThreshold returns frequency null and
\* probability 0 with the diagnostics and does not run the estimator; the
\* estimator runs only in polls where rms >= rmsThreshold, and only after the
\* amplitude analysis and the gain controller's update.
C6_EstimatorOnlyAtOrAboveThreshold ==
  /\ GatedReading
  /\ EstimatorLast
  /\ YinCalled => (estimation # Null /\ RmsAtLeast(Val(estimation).rms))

\* C6 as amended: a poll with rms below rmsThreshold returns frequency null and
\* probability 0 with the diagnostics and does not run the estimator; the
\* estimator runs only in polls where rms is not below rmsThreshold (rms >=
\* rmsThreshold, or rms is NaN), and only after the amplitude analysis and the
\* gain controller's update.
C6_EstimatorOnlyWhenNotBelowThreshold ==
  /\ GatedReading
  /\ EstimatorLast
  /\ YinCalled => (estimation # Null /\ ~RmsBelow(Val(estimation).rms))

\* a frame of rms 0.005 on which the estimator would have found 440 Hz was gated
C6_QuietToneGated ==
  /\ estimation # Null
  /\ Val(estimation).rms = Fin(5000)
  /\ Val(estimation).peak = 5
  /\ Val(estimation).frequency = Null
  /\ callLog = <<"getFloatTimeDomainData", "_analyseAmplitude", "autoGain.update">>

\* C7: a getPitch on a tracker that is not initialized (never started, or stopped)
\* or whose audio context is not running returns null, reads no frame, leaves the
\* gain controller as it is and does not run the estimator.
C7_InactiveGetPitchReturnsNone ==
  [][(/\ guardSeen' # Null
      /\ \/ ~Val(guardSeen').initialized
         \/ Val(guardSeen').audioContext # Some("running"))
     => (/\ estimation' = Null
         /\ callLog' = <<>>
         /\ agcCall' = Null
         /\ autoGain' = autoGain
         /\ buffer' = buffer)]_vars

\* getPitch was called on an initialized tracker whose context was suspended
C7_PolledWhileSuspended ==
  /\ guardSeen # Null
  /\ Val(guardSeen).initialized
  /\ Val(guardSeen).audioContext = Some("suspended")
  /\ estimation = Null

\* C8: the controller's gain, and the gain update returns, lie in
\* [minGain, maxGain] = [0.5, 200] in every state, after any sequence of updates.
C8_GainWithinLimits ==
  /\ autoGain # Null =>
       (500 <= Val(autoGain).currentGain /\ Val(autoGain).currentGain <= 200000)
  /\ agcCall # Null =>
       (500 <= Val(agcCall).ret.gain /\ Val(agcCall).ret.gain <= 200000)

\* an update with rms 0 left the gain at maxGain
C8_SilenceAtMaxGain ==
  /\ agcCall # Null
  /\ Val(agcCall).rms = Fin(0)
  /\ Val(autoGain).smoothedRms = Some(0)
  /\ Val(agcCall).ret.gain = 200000

\* C9: an update with a non-finite rms leaves smoothedRms, currentGain and
\* lastUpdateTime as they were and returns the gain and the smoothedRms known
\* so far (0 where none is).
C9_NonFiniteLeavesState ==
  [][(agcCall' # Null /\ Val(agcCall').rms.k # "fin")
     => (/\ autoGain' = autoGain
         /\ Val(agcCall').ret.gain = Val(autoGain).currentGain
         /\ Val(agcCall').ret.smoothedRms =
              (IF Val(autoGain).smoothedRms = Null THEN Fin(0)
               ELSE Fin(Val(Val(autoGain).smoothedRms))))]_vars

\* a non-finite update came later than the last finite one, whose time is kept
C9_FailedUpdateAfterFinite ==
  /\ agcCall # Null
  /\ Val(agcCall).rms.k # "fin"
  /\ Val(autoGain).lastUpdateTime # Null
  /\ Val(Val(autoGain).lastUpdateTime) < Val(agcCall).now
  /\ Val(agcCall).ret.smoothedRms = Fin(Val(Val(autoGain).smoothedRms))

SessionStateCleared ==
  /\ missCounter = 0
  /\ lastFrequency = Null
  /\ lastDetectionTime = 0
  /\ autoGain = Null \/ Val(autoGain).smoothedRms = Null

\* C10: stopListening discards the session's state: missCounter is 0, lastFrequency
\* null, lastDetectionTime 0 and the gain controller dropped, from then until the
\* first poll of the next session, which so finds no frequency to check a jump
\* against and an unseeded gain controller.
C10_StopDiscardsSessionState ==
  /\ ~isRunning => SessionStateCleared
  /\ statusMessage = "stopped" => (autoGain = Null /\ ~initialized)
  /\ (isRunning /\ ~PollRan) => SessionStateCleared
  /\ (PollNumeric /\ pollSaw.lastFrequency = Null) => pollOutcome = "accepted"

\* after a stop that found an accepted frequency and a seeded gain controller, the
\* first poll of the next session found none and its reading was accepted
C10_NextSessionStartsAfresh ==
  /\ stoppedWithState
  /\ isRunning
  /\ pollOutcome = "accepted"
  /\ pollSaw.lastFrequency = Null
  /\ agcCall # Null
  /\ Val(agcCall).ret.smoothedRms = Val(agcCall).rms

\* what the last getPitch of the detector worked on
YinCm == Val(detector).cumulativeMean
YinTau == Val(yinCall).tau
\* 1 - cmnd[tau] is below the probability threshold p (in 1/1000)
OneMinusBelow(x, p) == x.k = "fin" /\ (x.d - x.n) * 1000 < p * x.d

\* C11: every estimate getPitch returns has probability = 1 - cmnd[tau] for the tau
\* of the threshold search, and that probability is >= probabilityThreshold; a
\* candidate whose probability is below probabilityThreshold yields null.
C11_ProbabilityAtLeastThreshold ==
  yinCall # Null =>
    /\ Val(yinCall).result # Null =>
         LET p == Val(Val(yinCall).result).probability
         IN /\ YinTau # -1
            /\ p.k = "fin"
            /\ p.n * YinCm[YinTau].d = (YinCm[YinTau].d - YinCm[YinTau].n) * p.d
            /\ p.n * 1000 >= Val(detector).probabilityThreshold * p.d
    /\ (YinTau # -1 /\ OneMinusBelow(YinCm[YinTau], Val(detector).probabilityThreshold))
         => Val(yinCall).result = Null

\* the search found a tau whose probability was too low, and getPitch returned null
C11_LowProbabilityRejected ==
  /\ yinCall # Null
  /\ YinTau # -1
  /\ OneMinusBelow(YinCm[YinTau], 150)
  /\ Val(yinCall).result = Null

\* C12: whenever getPitch returns an estimate, the refined tau is finite and greater
\* than 0, and so is the frequency, for every array the first two stages produce
\* (arrays with NaN entries included).
C12_FrequencyPositiveFinite ==
  (yinCall # Null /\ Val(yinCall).result # Null) =>
    LET f == Val(Val(yinCall).result).frequency
        t == Val(Val(yinCall).betterTau)
    IN /\ t.k = "fin" /\ t.n > 0 /\ t.d > 0
       /\ f.k = "fin" /\ f.n > 0 /\ f.d > 0
       /\ f.n * t.n = f.d * t.d

\* an estimate at a tau whose right neighbour in the array is NaN: the refined tau
\* is the integer tau
C12_NonFiniteRefinementSkipped ==
  /\ yinCall # Null
  /\ Val(yinCall).result # Null
  /\ YinTau + 1 < HalfBuffer
  /\ YinCm[YinTau + 1].k = "nan"
  /\ Val(yinCall).betterTau = Some(Q(YinTau, 1))

\* C13: what getPitch returns depends on the buffer alone: it is what a newly made
\* detector with the same options returns on that buffer, whatever earlier call left
\* the scratch arrays as they are; so two calls on the same buffer return the same.
C13_ResultDependsOnBufferOnly ==
  yinCall # Null =>
    LET fresh == YinGetPitchOn(YinNew(Val(detector).threshold,
                                      Val(detector).probabilityThreshold),
                               Val(yinCall).buffer)
    IN /\ Val(yinCall).result = fresh.result
       /\ Val(yinCall).tau = fresh.tau
       /\ Val(detector) = fresh.detector

\* a call on silence after a call on another buffer that left other values in the
\* scratch arrays
C13_SilenceAfterTone ==
  /\ yinCall # Null
  /\ Val(yinCall).previous # <<>>
  /\ Val(yinCall).previous # Val(yinCall).buffer
  /\ \A i \in 1..YinBufferSize : Val(yinCall).buffer[i] = Fin(0)
  /\ \E i \in 1..YinBufferSize : Val(yinCall).previous[i] = Fin(3)
  /\ Val(yinCall).result = Null

YinBelow(t) ==
  YinCm[t].k = "fin" /\ YinCm[t].n * 1000 < Val(detector).threshold * YinCm[t].d
YinFirstBelow ==
  CHOOSE t \in 2..(HalfBuffer - 1) :
    YinBelow(t) /\ \A u \in 2..(t - 1) : ~YinBelow(u)
\* cmnd[u + 1] < cmnd[u]
YinFalls(u) ==
  /\ YinCm[u].k = "fin"
  /\ YinCm[u + 1].k = "fin"
  /\ YinCm[u + 1].n * YinCm[u].d < YinCm[u].n * YinCm[u + 1].d
\* cmnd[u + 1] >= cmnd[u]
YinRises(u) ==
  /\ YinCm[u].k = "fin"
  /\ YinCm[u + 1].k = "fin"
  /\ YinCm[u + 1].n * YinCm[u].d >= YinCm[u].n * YinCm[u + 1].d
YinSearchAsDescribed ==
  /\ YinTau = -1 <=> (\A t \in 2..(HalfBuffer - 1) : ~YinBelow(t))
  /\ YinTau # -1 =>
       /\ YinTau \in YinFirstBelow..(HalfBuffer - 1)
       /\ \A u \in YinFirstBelow..(YinTau - 1) : YinFalls(u)
       /\ YinTau + 1 < HalfBuffer => ~YinFalls(YinTau)
       /\ YinBelow(YinTau)

\* C16 as stated: the search returns -1 if no tau in [2, H) has cmnd[tau] < threshold;
\* otherwise, from the smallest such tau, the last tau reached by advancing while
\* tau+1 < H and cmnd[tau+1] < cmnd[tau]; the tau returned has cmnd[tau] < threshold
\* and tau+1 = H or cmnd[tau+1] >= cmnd[tau].
C16_SearchEndsAtLocalMinimum ==
  yinCall # Null =>
    /\ YinSearchAsDescribed
    /\ YinTau # -1 => (YinTau + 1 = HalfBuffer \/ YinRises(YinTau))

\* C16 as amended: the search returns -1 if no tau in [2, H) has cmnd[tau] <
\* threshold; otherwise, from the smallest such tau, the last tau reached by
\* advancing while tau+1 < H and cmnd[tau+1] < cmnd[tau]; the tau returned has
\* cmnd[tau] < threshold and tau+1 = H or cmnd[tau+1] is not below cmnd[tau]
\* (it is >= cmnd[tau], or it is NaN).
C16_SearchEndsWhereNextIsNotBelow ==
  yinCall # Null =>
    /\ YinSearchAsDescribed
    /\ YinTau # -1 =>
         (YinTau + 1 = HalfBuffer \/ YinRises(YinTau) \/ YinCm[YinTau + 1].k = "nan")

\* the search passed the first tau below the threshold and went on to a lower value
C16_AdvancedPastFirstBelow ==
  /\ yinCall # Null
  /\ YinTau # -1
  /\ YinTau > YinFirstBelow
  /\ YinCm[YinTau].n > 0

\* C14: for every frequency the note mapper maps, noteIndex is
\* ((nearestMidi mod 12) + 12) mod 12, lies in 0..11, and selects an entry of the
\* 12-entry table for the note name, however far below 0 nearestMidi is.
C14_NoteIndexInTable ==
  (noteCall # Null /\ Val(noteCall).result # Null) =>
    LET d == Val(Val(noteCall).result)
        r == IF d.nearestMidi >= 0 THEN d.nearestMidi % 12
             ELSE 0 - ((0 - d.nearestMidi) % 12)
    IN /\ d.noteIndex = (r + 12) % 12
       /\ d.noteIndex \in 0..11
       /\ d.note \in {NOTE_NAMES[i] : i \in 1..12}

\* C15: a PitchTracker constructed with a bufferSize that is not a power of two does
\* not come to exist: with such a configuration no start() is ever begun, no getPitch
\* is called and init() acquires nothing.
C15_InvalidConfigNeverUsed ==
  (\A e \in 0..20 : bufferSize # 2^e) =>
    /\ \A c \in CallIds : calls[c] = "idle"
    /\ guardSeen = Null
    /\ ~stream
    /\ audioContext = Null

\* C17: the gain an update returns is the gain in effect on the signal path at the
\* time of the update, the signal-path gain being the gain node's, which approaches
\* each desired gain exponentially with time constant gainSlew.
C17_ReturnedGainIsGainInEffect ==
  (agcCall # Null /\ autoGain # Null) =>
    Val(agcCall).ret.gain = NodeGainAt(Val(autoGain), Val(agcCall).now)

\* C18: an update with a finite rms sets smoothedRms to rms when it is the first, and
\* when no time has passed since the last one (alpha = 1); when time dt > 0 has
\* passed it sets smoothedRms between the previous smoothedRms and rms, at
\* exp(-dt / smoothingTime) times the previous distance from rms (to the last digit
\* kept), so the distance from a constant rms never grows.
C18_SmoothingTowardsRms ==
  [][(clock' = clock /\ agcCall' # Null /\ Val(agcCall').rms.k = "fin"
      /\ autoGain # Null) =>
       LET r == Val(agcCall').rms.v
           now == Val(agcCall').now
           g == Val(autoGain)
           new == Val(Val(autoGain').smoothedRms)
       IN /\ Val(agcCall').ret.smoothedRms = Fin(new)
          /\ g.smoothedRms = Null => new = r
          /\ (g.smoothedRms # Null /\ now <= Val(g.lastUpdateTime)) => new = r
          /\ (g.smoothedRms # Null /\ now > Val(g.lastUpdateTime)) =>
               LET prev == Val(g.smoothedRms)
                   shrunk == Abs(prev - r) * ExpNeg(now - Val(g.lastUpdateTime))
               IN /\ (IF prev < r THEN prev ELSE r) <= new
                  /\ new <= (IF prev < r THEN r ELSE prev)
                  /\ Abs(new - r) <= Abs(prev - r)
                  /\ Abs(new - r) * 1000 - shrunk < 1000
                  /\ shrunk - Abs(new - r) * 1000 < 1000]_vars

\* an update with rms 0 some time after a louder one: smoothedRms is on its way to 0
C18_PartWayToSilence ==
  /\ agcCall # Null
  /\ Val(agcCall).rms = Fin(0)
  /\ Val(agcCall).now > 0
  /\ Val(agcCall).ret.smoothedRms.v > 0
  /\ Val(agcCall).ret.smoothedRms.v < 2000000

\* C19: under any sequence of clicks and timer ticks at most one interval timer is
\* set, one is set exactly when isRunning is true (and it is the one pollTimer
\* names), and from stopListening until the next successful start no poll callback
\* has run: no getPitch was called, no outcome recorded, the readouts stay reset.
C19_OneTimerWhileRunning ==
  /\ Cardinality(timers) <= 1
  /\ (timers # {}) <=> isRunning
  /\ isRunning => (pollTimer # Null /\ timers = {Val(pollTimer)})
  /\ ~isRunning =>
       (pollTimer = Null /\ pollOutcome = "idle" /\ pollSaw = NoPoll /\ missRun = 0)
  /\ (~isRunning /\ statusMessage \in {"stopped", "requesting"}) =>
       (guardSeen = Null /\ readouts = Null /\ lastFrequency = Null)

\* a second session is polling, on the one timer set
C19_SecondSessionPolling ==
  /\ stoppedWithState
  /\ isRunning
  /\ Cardinality(timers) = 1
  /\ pollOutcome = "lostLock"
  /\ missCounter = 4

\* C20: while a start is in flight (isInitializing), no click begins a second start
\* or stops anything: the one tracker.start() stays in flight, the button stays
\* disabled, nothing is running.  Every start whose tracker.start() has settled
\* eventually sets isInitializing to false and enables the button, with isRunning
\* true and the poll timer set if it resolved, and isRunning false and no poll
\* timer if it rejected.
C20_StartSettlesOnce ==
  /\ [](isInitializing =>
          /\ calls[AppCall] # "idle"
          /\ buttonDisabled
          /\ ~isRunning
          /\ timers = {}
          /\ statusMessage = "requesting")
  /\ [][(isInitializing /\ isInitializing') =>
          /\ calls[AppCall] \in {"resolved", "rejected"} => calls'[AppCall] = calls[AppCall]
          /\ initialized => initialized'
          /\ stream => stream']_vars
  /\ [][(isInitializing /\ ~isInitializing') =>
          /\ ~buttonDisabled'
          /\ \/ /\ calls[AppCall] = "resolved"
                /\ isRunning'
                /\ pollTimer' # Null
                /\ timers' = {Val(pollTimer')}
                /\ statusMessage' = "listening"
             \/ /\ calls[AppCall] = "rejected"
                /\ ~isRunning'
                /\ pollTimer' = Null
                /\ timers' = {}
                /\ statusMessage' = "error"]_vars
  /\ (isInitializing /\ calls[AppCall] \in {"resolved", "rejected"})
       ~> (~isInitializing /\ ~buttonDisabled)

\* a start failed after an earlier session: the button is enabled again, nothing runs
C20_FailedStartLeavesButtonEnabled ==
  /\ statusMessage = "error"
  /\ ~isInitializing
  /\ ~buttonDisabled
  /\ ~isRunning
  /\ timers = {}
  /\ stoppedWithState

\* the tracker is uninitialized and holds no stream, context, analyser or gain controller
Released ==
  /\ ~initialized
  /\ ~stream
  /\ audioContext = Null
  /\ ~analyser
  /\ autoGain = Null

\* C21: if stop() has been called and from then on start() is never called again,
\* the tracker eventually is, and stays, uninitialized and without stream, audio
\* context, analyser and gain controller, also when stop() came while a start() was
\* awaiting the microphone or while two start() calls overlapped.  (Stated for a
\* tracker of the default buffer size, whose init() does not throw.)
C21_StopReleasesForGood ==
  (bufferSize = DefaultBufferSize /\ <>[]stopCalled) => (<>[]Released)

\* C22: whenever initialized is true, analyser, audioContext, buffer, yin and autoGain
\* are all non-null; so a getPitch whose guard passes has a buffer to read into and an
\* estimator to call, and one that returned a reading had them.
C22_InitializedHasItsParts ==
  /\ initialized =>
       (analyser /\ audioContext # Null /\ buffer /\ yin /\ autoGain # Null)
  /\ GetPitchActive => (buffer /\ yin)
  /\ estimation # Null => (initialized /\ buffer /\ yin /\ autoGain # Null)

\* getPitch returned a reading from a tracker that stop() released while its start()
\* was awaiting the microphone, and that the late grant initialized
C22_ReadingAfterLateInit ==
  /\ stopCalled
  /\ initialized
  /\ estimation # Null
  /\ \E i \in 1..Len(callLog) : callLog[i] = "yin.getPitch"

====
